---- MODULE Spec2Model ----
(***************************************************************************)
(* Model of simple-tic-tac-toe (src/src/main.rs): the GameState value      *)
(* type, the exhaustive minimax search, and the main game loop.            *)
(***************************************************************************)
EXTENDS Integers, Sequences, FiniteSets

VARIABLES
    user_player,    \* main: the mark chosen by the human (line 250)
    game,           \* main: the GameState (line 251); in the search, the state of a call
    possible_moves, \* main: open_squares() taken at the top of the loop body (line 254)
    best_moves,     \* get_random_computer_move: the list it draws from (line 171)
    pc,             \* position in main, or "search" inside the minimax recursion
    message         \* main: the end-of-game report (lines 276-285)

vars == <<user_player, game, possible_moves, best_moves, pc, message>>

----------------------------------------------------------------------------
(* Player, Option<Player>, GameResult *)

Player == {"X", "O"}

None == "None"

\* Player::opponent
opponent(p) == IF p = "X" THEN "O" ELSE "X"

\* enum GameResult, ordered by its discriminants
Loss == -1
Tie == 0
Win == 1

\* number of squares of the board: [Option<Player>; 9]
NumSquares == 9

Squares == 0 .. (NumSquares - 1)

----------------------------------------------------------------------------
(* GameState *)

\* get_line_winner comparing only the first two cells of the line
get_line_winner_two_cells(a, b, c) ==
    IF a # None /\ a = b THEN a ELSE None

\* get_line_winner(a, b, c)
get_line_winner(a, b, c) ==
    IF a # None /\ a = b /\ b = c THEN a ELSE None

\* GameState::check_winner on a board, with its loop unrolled: for i = 0, 1, 2
\* row i (squares 3i, 3i+1, 3i+2) then column i (squares i, i+3, i+6), then
\* the two diagonals; the first line that has a winner is returned.
check_winner(board) ==
    IF get_line_winner(board[0], board[1], board[2]) # None
    THEN get_line_winner(board[0], board[1], board[2])
    ELSE IF get_line_winner(board[0], board[3], board[6]) # None
    THEN get_line_winner(board[0], board[3], board[6])
    ELSE IF get_line_winner(board[3], board[4], board[5]) # None
    THEN get_line_winner(board[3], board[4], board[5])
    ELSE IF get_line_winner(board[1], board[4], board[7]) # None
    THEN get_line_winner(board[1], board[4], board[7])
    ELSE IF get_line_winner(board[6], board[7], board[8]) # None
    THEN get_line_winner(board[6], board[7], board[8])
    ELSE IF get_line_winner(board[2], board[5], board[8]) # None
    THEN get_line_winner(board[2], board[5], board[8])
    ELSE IF get_line_winner(board[0], board[4], board[8]) # None
    THEN get_line_winner(board[0], board[4], board[8])
    ELSE IF get_line_winner(board[2], board[4], board[6]) # None
    THEN get_line_winner(board[2], board[4], board[6])
    ELSE None

\* GameState::new
GameStateNew(computer_player) ==
    [ board           |-> [i \in Squares |-> None],
      next_player     |-> "X",
      winner          |-> None,
      computer_player |-> computer_player ]

\* apply_move that leaves next_player as it was
apply_move_same_player(state, square) ==
    LET board == [state.board EXCEPT ![square] = state.next_player]
    IN  [ board           |-> board,
          next_player     |-> state.next_player,
          winner          |-> check_winner(board),
          computer_player |-> state.computer_player ]

\* apply_move that computes the winner before it writes the square
apply_move_stale_winner(state, square) ==
    LET board == [state.board EXCEPT ![square] = state.next_player]
    IN  [ board           |-> board,
          next_player     |-> opponent(state.next_player),
          winner          |-> check_winner(state.board),
          computer_player |-> state.computer_player ]

\* apply_move that never writes the square
apply_move_no_mark(state, square) ==
    [ board           |-> state.board,
      next_player     |-> opponent(state.next_player),
      winner          |-> check_winner(state.board),
      computer_player |-> state.computer_player ]

\* GameState::apply_move: the value of *self after the call
apply_move(state, square) ==
    LET board == [state.board EXCEPT ![square] = state.next_player]
    IN  [ board           |-> board,
          next_player     |-> opponent(state.next_player),
          winner          |-> check_winner(board),
          computer_player |-> state.computer_player ]

\* #[derive(Clone)] for GameState: a copy of every field
clone(state) ==
    [ board           |-> state.board,
      next_player     |-> state.next_player,
      winner          |-> state.winner,
      computer_player |-> state.computer_player ]

\* GameState::with_move: the returned new_state, a clone with the move applied
with_move(state, square) == apply_move(clone(state), square)

\* with_move that applies the move to the receiver itself and returns it
with_move_call_aliased(state, square) ==
    [ self |-> apply_move(state, square), new_state |-> apply_move(state, square) ]

\* GameState::with_move as a call: the receiver after the call (self, behind
\* a shared reference, is not written) and the returned new_state
with_move_call(state, square) ==
    [ self |-> state, new_state |-> with_move(state, square) ]

\* GameState::open_squares: board.iter().enumerate().filter_map(..).collect(),
\* the indices of the empty squares in ascending order
BoardIndices == [i \in 1 .. NumSquares |-> i - 1]

\* open_squares keeping the occupied squares instead of the empty ones
open_squares_occupied(state) ==
    SelectSeq(BoardIndices, LAMBDA i : state.board[i] # None)

\* GameState::open_squares
open_squares(state) ==
    SelectSeq(BoardIndices, LAMBDA i : state.board[i] = None)

----------------------------------------------------------------------------
(* minimax *)

\* Iterator::max and Iterator::min over the results of the children
Max(S) == CHOOSE x \in S : \A y \in S : y <= x
Min(S) == CHOOSE x \in S : \A y \in S : x <= y

RECURSIVE minimax(_)

\* minimax that maximizes on every turn, the opponent's included
minimax_always_max(state) ==
    IF state.winner # None
    THEN IF state.winner = state.computer_player THEN Win ELSE Loss
    ELSE LET possible_moves_ == open_squares(state)
         IN  IF possible_moves_ = <<>> THEN Tie
             ELSE Max({minimax(with_move(state, possible_moves_[k])) :
                         k \in DOMAIN possible_moves_})

\* minimax that follows only the first possible move instead of reducing over
\* all of them
minimax_first_move_only(state) ==
    IF state.winner # None
    THEN IF state.winner = state.computer_player THEN Win ELSE Loss
    ELSE LET possible_moves_ == open_squares(state)
         IN  IF possible_moves_ = <<>> THEN Tie
             ELSE minimax(with_move(state, possible_moves_[1]))

\* minimax with Win and Loss exchanged in the base case
minimax_swapped_outcome(state) ==
    IF state.winner # None
    THEN IF state.winner = state.computer_player THEN Loss ELSE Win
    ELSE LET possible_moves_ == open_squares(state)
         IN  IF possible_moves_ = <<>> THEN Tie
             ELSE IF state.next_player = state.computer_player
                  THEN Max({minimax(with_move(state, possible_moves_[k])) :
                              k \in DOMAIN possible_moves_})
                  ELSE Min({minimax(with_move(state, possible_moves_[k])) :
                              k \in DOMAIN possible_moves_})

\* minimax: Win or Loss on a decided state, Tie on a full board, otherwise the
\* max (computer to move) or min (opponent to move) over the children
minimax(state) ==
    IF state.winner # None
    THEN IF state.winner = state.computer_player THEN Win ELSE Loss
    ELSE LET possible_moves_ == open_squares(state)
         IN  IF possible_moves_ = <<>> THEN Tie
             ELSE IF state.next_player = state.computer_player
                  THEN Max({minimax(with_move(state, possible_moves_[k])) :
                              k \in DOMAIN possible_moves_})
                  ELSE Min({minimax(with_move(state, possible_moves_[k])) :
                              k \in DOMAIN possible_moves_})

RECURSIVE best_loop(_, _, _, _, _)

\* the loop keeping the moves with the lowest result instead of the highest
best_loop_lowest(state, moves, k, best_so_far, winning_moves) ==
    IF k > Len(moves) THEN winning_moves
    ELSE LET m == moves[k]
             move_result == minimax(with_move(state, m))
         IN  IF move_result < best_so_far \/ winning_moves = <<>>
             THEN best_loop(state, moves, k + 1, move_result, <<m>>)
             ELSE IF move_result = best_so_far
                  THEN best_loop(state, moves, k + 1, best_so_far, Append(winning_moves, m))
                  ELSE best_loop(state, moves, k + 1, best_so_far, winning_moves)

\* the loop comparing with >= where the code compares with >: a move that
\* ties with best_so_far clears the list
best_loop_clear_on_tie(state, moves, k, best_so_far, winning_moves) ==
    IF k > Len(moves) THEN winning_moves
    ELSE LET m == moves[k]
             move_result == minimax(with_move(state, m))
         IN  IF move_result >= best_so_far
             THEN best_loop(state, moves, k + 1, move_result, <<m>>)
             ELSE best_loop(state, moves, k + 1, best_so_far, winning_moves)

\* the loop keeping only the first move that reaches the best result
best_loop_first_only(state, moves, k, best_so_far, winning_moves) ==
    IF k > Len(moves) THEN winning_moves
    ELSE LET m == moves[k]
             move_result == minimax(with_move(state, m))
         IN  IF move_result > best_so_far \/ winning_moves = <<>>
             THEN best_loop(state, moves, k + 1, move_result, <<m>>)
             ELSE best_loop(state, moves, k + 1, best_so_far, winning_moves)

\* GameState::get_best_computer_moves: the loop over possible_moves from
\* index k on, carrying best_so_far and winning_moves
best_loop(state, moves, k, best_so_far, winning_moves) ==
    IF k > Len(moves) THEN winning_moves
    ELSE LET m == moves[k]
             move_result == minimax(with_move(state, m))
         IN  IF move_result > best_so_far
             THEN best_loop(state, moves, k + 1, move_result, <<m>>)
             ELSE IF move_result = best_so_far
                  THEN best_loop(state, moves, k + 1, best_so_far, Append(winning_moves, m))
                  ELSE best_loop(state, moves, k + 1, best_so_far, winning_moves)

\* GameState::get_best_computer_moves
get_best_computer_moves(state) ==
    best_loop(state, open_squares(state), 1, Loss, <<>>)

----------------------------------------------------------------------------
(* main *)

\* let user_player = ...prompt()?; let mut game = GameState::new(user_player.opponent());
Init ==
    /\ user_player \in Player
    /\ game = GameStateNew(opponent(user_player))
    /\ possible_moves = <<>>
    /\ best_moves = <<>>
    /\ pc = "loop"
    /\ message = "none"

\* the loop test without the break on an empty possible_moves
LoopTest_no_break ==
    /\ pc = "loop"
    /\ IF game.winner # None
       THEN /\ pc' = "done"
            /\ UNCHANGED possible_moves
       ELSE /\ possible_moves' = open_squares(game)
            /\ pc' = "move"
    /\ UNCHANGED <<user_player, game, best_moves, message>>

\* while game.winner.is_none() { let possible_moves = game.open_squares();
\*     if possible_moves.is_empty() { break; } ...
LoopTest ==
    /\ pc = "loop"
    /\ IF game.winner # None
       THEN /\ pc' = "done"
            /\ UNCHANGED possible_moves
       ELSE /\ possible_moves' = open_squares(game)
            /\ pc' = IF possible_moves' = <<>> THEN "done" ELSE "move"
    /\ UNCHANGED <<user_player, game, best_moves, message>>

\* the human's branch offering every square of the board, open or not
HumanMove_any_square ==
    /\ pc = "move"
    /\ game.next_player = user_player
    /\ \E i \in Squares : game' = apply_move(game, i)
    /\ possible_moves' = <<>>
    /\ pc' = "loop"
    /\ UNCHANGED <<user_player, best_moves, message>>

\* the human's branch: Select offers exactly possible_moves; then
\* game.apply_move(next_move.square) and the loop body's locals are dropped
HumanMove ==
    /\ pc = "move"
    /\ game.next_player = user_player
    /\ \E i \in 1 .. Len(possible_moves) :
          game' = apply_move(game, possible_moves[i])
    /\ possible_moves' = <<>>
    /\ pc' = "loop"
    /\ UNCHANGED <<user_player, best_moves, message>>

\* the human's prompt fails (cancelled or interrupted): .prompt()? returns the
\* error from main
PromptFails ==
    /\ pc = "move"
    /\ game.next_player = user_player
    /\ pc' = "error"
    /\ UNCHANGED <<user_player, game, possible_moves, best_moves, message>>

\* the draw returning the drawn index itself as the square
random_selections_index_as_square(best) ==
    {[square |-> idx] : idx \in 0 .. (Len(best) - 1)}

\* best_moves[rng.gen_range(0..best_moves.len())]: the Selections the draw can
\* return, one for each index of the half-open range
random_selections(best) ==
    {[square |-> best[idx + 1]] : idx \in 0 .. (Len(best) - 1)}

\* the computer's branch, first half: get_random_computer_move computes
\* best_moves = self.get_best_computer_moves()
ComputerThink ==
    /\ pc = "move"
    /\ game.next_player # user_player
    /\ best_moves' = get_best_computer_moves(game)
    /\ pc' = "pick"
    /\ UNCHANGED <<user_player, game, possible_moves, message>>

\* the computer's branch, second half: best_moves[rng.gen_range(0..best_moves.len())],
\* where gen_range panics on an empty range; then game.apply_move(next_move.square)
ComputerPick ==
    /\ pc = "pick"
    /\ IF Len(best_moves) = 0
       THEN /\ pc' = "panic"
            /\ UNCHANGED <<game, possible_moves, best_moves>>
       ELSE /\ \E selection \in random_selections(best_moves) :
                  game' = apply_move(game, selection.square)
            /\ possible_moves' = <<>>
            /\ best_moves' = <<>>
            /\ pc' = "loop"
    /\ UNCHANGED <<user_player, message>>

\* the report after the loop
Finish ==
    /\ pc = "done"
    /\ message' = IF game.winner # None
                  THEN IF game.winner = user_player THEN "won" ELSE "lost"
                  ELSE "tie"
    /\ pc' = "exit"
    /\ UNCHANGED <<user_player, game, possible_moves, best_moves>>

Next == LoopTest \/ HumanMove \/ PromptFails \/ ComputerThink \/ ComputerPick \/ Finish

Spec == Init /\ [][Next]_vars

----------------------------------------------------------------------------
(* the minimax recursion: the states minimax is called on, starting from a   *)
(* call on GameState::new(c)                                                 *)

SearchInit ==
    /\ user_player \in Player
    /\ game = GameStateNew(opponent(user_player))
    /\ possible_moves = <<>>
    /\ best_moves = <<>>
    /\ pc = "search"
    /\ message = "none"

\* the recursion without the base case on state.winner
Recurse_ignoring_winner ==
    /\ pc = "search"
    /\ open_squares(game) # <<>>
    /\ \E k \in DOMAIN open_squares(game) :
          game' = with_move(game, open_squares(game)[k])
    /\ UNCHANGED <<user_player, possible_moves, best_moves, pc, message>>

\* minimax past its two base cases: one of the calls
\* minimax(&state.with_move(m.square)) for m in possible_moves
Recurse ==
    /\ pc = "search"
    /\ game.winner = None
    /\ open_squares(game) # <<>>
    /\ \E k \in DOMAIN open_squares(game) :
          game' = with_move(game, open_squares(game)[k])
    /\ UNCHANGED <<user_player, possible_moves, best_moves, pc, message>>

SearchNext == Recurse

SearchSpec == SearchInit /\ [][SearchNext]_vars

----------------------------------------------------------------------------
(* the whole program: a run of main, or a descent of the minimax recursion.  *)
(* main is sequential code that keeps running (the human answers every       *)
(* prompt, by a selection or by cancelling), and a call of minimax that has   *)
(* open squares left makes its recursive calls.                               *)

ProgramInit == Init \/ SearchInit

ProgramNext == Next \/ SearchNext

ProgramSpec ==
    /\ ProgramInit
    /\ [][ProgramNext]_vars
    /\ WF_vars(Next)
    /\ WF_vars(SearchNext)

----------------------------------------------------------------------------
(* Properties *)

EmptyBoard == [i \in Squares |-> None]

occupied_count(state) == Cardinality({i \in Squares : state.board[i] # None})

\* the 8 lines of the grid: 3 rows, 3 columns, 2 diagonals
Lines ==
    { {0, 1, 2}, {3, 4, 5}, {6, 7, 8},
      {0, 3, 6}, {1, 4, 7}, {2, 5, 8},
      {0, 4, 8}, {2, 4, 6} }

\* player p occupies all three cells of some line
HasLine(board, p) == \E l \in Lines : \A i \in l : board[i] = p

\* C1: the computer never loses. In the main loop, with the human picking any
\* open square and the computer any square of get_best_computer_moves, no state
\* has winner = user_player (the opponent of computer_player), the report is
\* never "won" for the human, and at the top of every loop iteration
\* minimax(game) is not Loss.
C1_ComputerNeverLoses ==
    /\ game.computer_player = opponent(user_player)
    /\ game.winner # user_player
    /\ message # "won"
    /\ pc = "loop" => minimax(game) # Loss

\* a game played to the end that the computer won
C1_Witness ==
    /\ pc = "exit"
    /\ message = "lost"
    /\ game.winner = game.computer_player

\* C2: from the empty initial board (X to move), minimax is Tie both with
\* computer_player = X and with computer_player = O.
C2_EmptyBoardIsTie ==
    (game.board = EmptyBoard /\ game.next_player = "X") => minimax(game) = Tie

\* the root call of the search on GameState::new(O)
C2_Witness ==
    /\ pc = "search"
    /\ game = GameStateNew("O")

\* C3 as stated: on the empty board with computer_player = X the best moves are
\* exactly the corners and the centre.
C3_CornersAndCentreOnly ==
    (pc = "pick" /\ game = GameStateNew("X")) =>
        {best_moves[k] : k \in DOMAIN best_moves} = {0, 2, 4, 6, 8}

\* C3 amended: on the empty board with computer_player = X,
\* get_best_computer_moves returns all nine squares in ascending order: every
\* opening move, the edge midpoints included, evaluates to Tie.
C3_AllNineSquares ==
    (pc = "pick" /\ game = GameStateNew("X")) =>
        /\ best_moves = <<0, 1, 2, 3, 4, 5, 6, 7, 8>>
        /\ \A k \in DOMAIN best_moves :
              minimax(with_move(game, best_moves[k])) = Tie

\* the computer, playing X, has computed its opening moves
C3_Witness ==
    /\ pc = "pick"
    /\ game = GameStateNew("X")
    /\ Len(best_moves) > 0

\* C4: for every non-terminal state with an open square that the search visits,
\* get_best_computer_moves returns a non-empty list holding, in ascending order,
\* exactly the open squares whose child state has the maximum minimax value
\* over all open squares, also when that maximum is Loss.
C4_BestMovesAreAllMaxima ==
    (game.winner = None /\ open_squares(game) # <<>>) =>
        LET results == {<<m, minimax(with_move(game, m))>> :
                          m \in {i \in Squares : game.board[i] = None}}
            best    == Max({p[2] : p \in results})
            got     == get_best_computer_moves(game)
        IN  /\ got # <<>>
            /\ got = SelectSeq(BoardIndices, LAMBDA i : <<i, best>> \in results)

\* a state where every move loses for the computer and the moves are several
C4_Witness ==
    /\ pc = "search"
    /\ game.winner = None
    /\ occupied_count(game) = 6
    /\ Len(get_best_computer_moves(game)) >= 2
    /\ minimax(game) = Loss

\* C5: on terminal states minimax is the exact outcome. When player W has a
\* complete line, minimax is Win with computer_player = W and Loss with
\* computer_player = opponent(W); on a full board where nobody has a line it is
\* Tie for both choices of computer_player.
C5_TerminalOutcome ==
    /\ \A W \in Player :
          HasLine(game.board, W) =>
              /\ game.winner = W
              /\ minimax([game EXCEPT !.computer_player = W]) = Win
              /\ minimax([game EXCEPT !.computer_player = opponent(W)]) = Loss
    /\ ( /\ occupied_count(game) = NumSquares
         /\ \A W \in Player : ~HasLine(game.board, W) ) =>
              \A c \in Player : minimax([game EXCEPT !.computer_player = c]) = Tie

\* a full board won by X with the ninth move
C5_Witness ==
    /\ pc = "search"
    /\ occupied_count(game) = NumSquares
    /\ HasLine(game.board, "X")
    /\ game.computer_player = "O"

\* C6: check_winner returns Some(p) exactly when p occupies all three cells of
\* one of the 8 lines; three empty cells are no win, and a full board without
\* three in a row gives None.
C6_CheckWinnerIffLine ==
    /\ check_winner(game.board) \in Player \cup {None}
    /\ \A p \in Player : (check_winner(game.board) = p) <=> HasLine(game.board, p)
    /\ (\A p \in Player : ~HasLine(game.board, p)) => check_winner(game.board) = None

\* O wins on the anti-diagonal, the last line check_winner looks at
C6_Witness ==
    /\ pc = "search"
    /\ \A i \in {2, 4, 6} : game.board[i] = "O"
    /\ check_winner(game.board) = "O"

\* C7: with fewer than 5 squares occupied, winner is None.
C7_NoWinnerBeforeFiveMoves ==
    occupied_count(game) < 5 => game.winner = None

\* four moves made, X holding two cells of the top row
C7_Witness ==
    /\ pc = "search"
    /\ occupied_count(game) = 4
    /\ game.board[0] = "X"
    /\ game.board[1] = "X"

\* C8: open_squares lists every empty square once, in ascending order, and no
\* occupied square; its length plus the number of occupied squares is 9.
C8_OpenSquares ==
    LET os == open_squares(game)
    IN  /\ \A k \in 1 .. (Len(os) - 1) : os[k] < os[k + 1]
        /\ {os[k] : k \in DOMAIN os} = {i \in Squares : game.board[i] = None}
        /\ Len(os) + occupied_count(game) = 9

\* a board with five squares taken, square 0 among them
C8_Witness ==
    /\ pc = "search"
    /\ occupied_count(game) = 5
    /\ game.board[0] # None
    /\ Len(open_squares(game)) = 4

\* C9: with_move(S) on an open square S leaves the receiver as it was; the
\* returned state keeps computer_player, differs from the original board only
\* at S, and its open_squares are the original's with S removed.
C9_WithMoveValueSemantics ==
    \A S \in {i \in Squares : game.board[i] = None} :
        LET call == with_move_call(game, S)
        IN  /\ call.self = game
            /\ call.new_state.computer_player = game.computer_player
            /\ call.new_state.board[S] # game.board[S]
            /\ \A i \in Squares \ {S} : call.new_state.board[i] = game.board[i]
            /\ open_squares(call.new_state) =
                   SelectSeq(open_squares(game), LAMBDA i : i # S)

\* a state returned by with_move that still has open squares to move on
C9_Witness ==
    /\ pc = "search"
    /\ occupied_count(game) = 3
    /\ game = with_move_call([game EXCEPT !.board[4] = None,
                                          !.next_player = "X"], 4).new_state

\* C10: get_random_computer_move runs only on a state with winner = None and an
\* open square, and the list it draws its index from is never empty: the draw
\* never panics.
C10_RandomMoveOnlyOnLiveStates ==
    /\ pc # "panic"
    /\ pc = "pick" =>
          /\ game.winner = None
          /\ open_squares(game) # <<>>
          /\ game.next_player = game.computer_player
          /\ Len(best_moves) > 0

\* the computer is to fill the last open square
C10_Witness ==
    /\ pc = "pick"
    /\ occupied_count(game) = 8
    /\ Len(best_moves) = 1

\* C11: every square get_random_computer_move can return is a member of
\* get_best_computer_moves of the same state: an open square whose child state
\* has the maximum minimax value over all open squares.
C11_RandomMoveIsBestMove ==
    pc = "pick" =>
        LET best    == get_best_computer_moves(game)
            results == {<<m, minimax(with_move(game, m))>> :
                          m \in {i \in Squares : game.board[i] = None}}
            highest == Max({p[2] : p \in results})
        IN  \A selection \in random_selections(best_moves) :
               /\ \E k \in DOMAIN best : best[k] = selection.square
               /\ game.board[selection.square] = None
               /\ <<selection.square, highest>> \in results

\* the draw is among several best moves while other open squares are worse
C11_Witness ==
    /\ pc = "pick"
    /\ Len(best_moves) >= 2
    /\ Len(best_moves) < Len(open_squares(game))
    /\ occupied_count(game) >= 2

count_of(state, p) == Cardinality({i \in Squares : state.board[i] = p})

\* the state has a winner or no open square
terminal(state) == state.winner # None \/ open_squares(state) = <<>>

\* C12: the number of X marks minus the number of O marks is 0 or 1, and
\* next_player is X exactly when the counts are equal; the initial state is
\* the empty board with X to move whichever player is the computer.
C12_AlternatingTurns ==
    /\ count_of(game, "X") - count_of(game, "O") \in {0, 1}
    /\ (game.next_player = "X") <=> (count_of(game, "X") = count_of(game, "O"))
    /\ (game.next_player = "O") <=> (count_of(game, "X") = count_of(game, "O") + 1)
    /\ \A c \in Player :
          /\ GameStateNew(c).board = EmptyBoard
          /\ GameStateNew(c).next_player = "X"
    /\ occupied_count(game) = 0 => game = GameStateNew(game.computer_player)

\* a full board: five X and four O, O to move next
C12_Witness ==
    /\ pc = "search"
    /\ count_of(game, "X") = 5
    /\ count_of(game, "O") = 4
    /\ game.next_player = "O"

\* C13: terminal states have no outgoing transitions. From a state with a
\* winner or without an open square, no step of the main loop and no step of
\* the minimax recursion changes board, next_player or winner.
C13_TerminalStatesAreFinal ==
    [][terminal(game) => game' = game]_vars

\* main has reported a game that was won with open squares left
C13_Witness ==
    /\ pc = "exit"
    /\ game.winner # None
    /\ open_squares(game) # <<>>

\* the steps the program still has to make are bounded by this measure: four
\* loop positions for every open square in main, the number of open squares in
\* the recursion
steps_left(state, position) ==
    LET n == Len(open_squares(state))
    IN  CASE position = "loop"   -> 4 * n + 3
          [] position = "move"   -> 4 * n + 2
          [] position = "pick"   -> 4 * n + 1
          [] position = "done"   -> 1
          [] position = "search" -> n
          [] OTHER               -> 0

\* C14: every game terminates. Every step of main and every recursive call of
\* minimax lowers a non-negative measure, and the program has a next step
\* wherever it has not finished: main stops only after its report on a
\* terminal state or, when a prompt fails, with the error, and a descent of
\* minimax stops only in a base case. main leaves its loop only on a terminal
\* state with at least 5 and at most 9 moves applied, and every recursive call
\* of minimax is on a state with one open square fewer than its caller's, so
\* the depth of the recursion is at most the number of open squares of the
\* argument.
C14_EveryGameTerminates ==
    /\ [][steps_left(game', pc') < steps_left(game, pc)]_vars
    /\ [](\/ pc = "exit" /\ terminal(game)
          \/ pc = "error"
          \/ pc = "search" /\ terminal(game)
          \/ pc = "move" /\ game.next_player # user_player
          \/ ENABLED (LoopTest \/ HumanMove \/ ComputerPick \/ Finish \/ Recurse))
    /\ [](pc \in {"done", "exit"} =>
              /\ terminal(game)
              /\ occupied_count(game) >= 5
              /\ occupied_count(game) <= 9)
    /\ [][game' # game =>
              /\ ~terminal(game)
              /\ Len(open_squares(game')) = Len(open_squares(game)) - 1]_vars

\* main has reported a game that took all nine moves and ended without a winner
C14_Witness ==
    /\ pc = "exit"
    /\ occupied_count(game) = 9
    /\ game.winner = None

\* the winner get_line_winner reports for one line
line_winner(board, l) ==
    IF \E p \in Player : \A i \in l : board[i] = p
    THEN CHOOSE p \in Player : \A i \in l : board[i] = p
    ELSE None

\* C15: in every state of the main loop and of the minimax recursion at most
\* one player has a complete line, so every complete line names the player
\* check_winner returns, whatever the order of the scan; and when winner is
\* Some(p), p made the last move: p = opponent(next_player).
C15_AtMostOneWinner ==
    /\ ~(HasLine(game.board, "X") /\ HasLine(game.board, "O"))
    /\ \A l \in Lines :
          line_winner(game.board, l) # None =>
              line_winner(game.board, l) = check_winner(game.board)
    /\ game.winner # None => game.winner = opponent(game.next_player)
    /\ \A p \in Player : HasLine(game.board, p) => game.winner = p

\* X completes the top row and the left column with one move
C15_Witness ==
    /\ game.winner = "X"
    /\ \A i \in {0, 1, 2, 3, 6} : game.board[i] = "X"
    /\ pc = "done"

\* C16: the cached winner field equals check_winner() of the current board in
\* every state produced by GameState::new and apply_move / with_move.
C16_WinnerFieldIsCheckWinner ==
    /\ game.winner = check_winner(game.board)
    /\ \A p \in Player : game.winner = p <=> HasLine(game.board, p)

\* the search is in a state that O has just won
C16_Witness ==
    /\ pc = "search"
    /\ game.winner = "O"
    /\ check_winner(game.board) = "O"

\* C17: no mark is ever overwritten. Every move of the main loop and every
\* with_move of the search changes exactly one square, which was empty, to the
\* mark of the player to move; every other square keeps its content.
C17_NoMarkOverwritten ==
    [][game' # game =>
          \E S \in Squares :
              /\ game.board[S] = None
              /\ game'.board[S] = game.next_player
              /\ \A i \in Squares \ {S} : game'.board[i] = game.board[i]]_vars

\* the human, playing O, is offered the open squares of a board with five marks
C17_Witness ==
    /\ pc = "move"
    /\ user_player = "O"
    /\ game.next_player = "O"
    /\ occupied_count(game) = 5

\* C18: the game value from the computer's side never decreases along a game.
\* In every non-terminal state: when the computer is to move, minimax(state)
\* equals minimax(with_move(s)) for every s of get_best_computer_moves; when the
\* human is to move, minimax(with_move(s)) >= minimax(state) for every open
\* square s, with equality for at least one.
C18_ValueNeverDecreases ==
    (game.winner = None /\ open_squares(game) # <<>>) =>
        LET results == {<<m, minimax(with_move(game, m))>> :
                          m \in {i \in Squares : game.board[i] = None}}
            value   == minimax(game)
            best    == get_best_computer_moves(game)
        IN  IF game.next_player = game.computer_player
            THEN /\ best # <<>>
                 /\ \A k \in DOMAIN best : <<best[k], value>> \in results
            ELSE /\ \A p \in results : p[2] >= value
                 /\ \E p \in results : p[2] = value

\* the human is to move and can choose between a move that keeps the value and
\* a move that raises it for the computer
C18_Witness ==
    /\ pc = "search"
    /\ game.winner = None
    /\ game.next_player # game.computer_player
    /\ occupied_count(game) = 7
    /\ minimax(game) = Tie
    /\ \E m \in {i \in Squares : game.board[i] = None} :
          minimax(with_move(game, m)) = Win

\* C19: minimax is zero-sum under a swap of the perspective. In every state,
\* terminal or not, the result with computer_player = P is Win exactly when the
\* result with computer_player = opponent(P) is Loss, and Tie exactly when
\* that one is Tie.
C19_ZeroSum ==
    LET mine   == minimax(game)
        theirs == minimax([game EXCEPT !.computer_player = opponent(@)])
    IN  /\ mine \in {Loss, Tie, Win}
        /\ (mine = Win)  <=> (theirs = Loss)
        /\ (mine = Loss) <=> (theirs = Win)
        /\ (mine = Tie)  <=> (theirs = Tie)

\* a state with open squares left that is a forced win for the computer
C19_Witness ==
    /\ pc = "search"
    /\ game.winner = None
    /\ occupied_count(game) = 5
    /\ minimax(game) = Win

====
